---- MODULE Spec2Model ----
(***************************************************************************)
(* PyOil3 (src/src/lib.rs): the cells generated by pyoil3_class! and       *)
(* pyoil3_ref_class!.  A cell is an Arc<Mutex<RustInstance>>.  A cell of   *)
(* pyoil3_class! guards an `instance`; a cell of pyoil3_ref_class! guards  *)
(* a lifetime-erased `ref_static` and the `owner` Arc it was given.        *)
(*                                                                         *)
(* The host holds Arc handles to cells (each PyClass is a host object any  *)
(* thread can reach).  Its threads clone and drop handles, bind new cells  *)
(* with the two generated constructors, and reach a payload through        *)
(* Mutex::lock on a handle the host holds.  Arc and Mutex                  *)
(* behave as in std: a strong count that deallocates when the last handle  *)
(* is released, and a lock that blocks while held and is poisoned by a     *)
(* panic of its holder.                                                    *)
(*                                                                         *)
(* Usage is the documented one: the view given to bind_owned_instance is   *)
(* a reference into the payload guarded by the owner handle given with it. *)
(* A payload is two words written one after the other, so that a mutation  *)
(* has a half-done state.                                                  *)
(*                                                                         *)
(* Spec explores every operation (handles, locks, panics, payload reads    *)
(* and writes) on up to MaxBusyCells cells; SpecLifetime explores the      *)
(* handle operations and uncontended locking on up to MaxCells cells,      *)
(* which is what dependency chains and sibling dependents need.            *)
(* SpecRegistration explores what the compiler makes of a source module   *)
(* of up to MaxDecls invocations of the two macros.                        *)
(* snap, dirty and last are history variables: they record what a view     *)
(* produced at creation, whether its target was written since, and the     *)
(* operation that led to the current state.                                *)
(***************************************************************************)
EXTENDS Integers, FiniteSets, Sequences, TLC

\* Bounds of the model.
MaxCells   == 3     \* cells ever allocated (ids are never reused)
MaxBusyCells == 2   \* cells ever allocated when payload access and panics are explored
MaxHandles == 2     \* host-held handles to one cell, over all threads
NumThreads == 2
MaxVal     == 1     \* payload words range over 0..MaxVal
MaxDecls   == 3     \* macro invocations in one source module
MaxModules == 3     \* interface handle names they can use

Cells   == 1..MaxCells
Threads == 1..NumThreads
Values  == 0..MaxVal
NoCell  == 0

\* A payload value v is stored as the two words <<v, v>>.
Whole(v)  == <<v, v>>
Torn(p)   == p[1] # p[2]
NoVal     == <<-1, -1>>      \* no payload (cell not allocated, or no value read)
Garbage   == <<-2, -2>>      \* contents of deallocated storage

VARIABLES
    kind,        \* kind[c]: "none" (not yet allocated), "owned", "ref"
    owner,       \* owner[c]: RustInstance.owner of a ref cell, else NoCell
    ref_static,  \* ref_static[c]: the erased view of a ref cell
    snap,        \* snap[c]: what the original view produced when c was created
    dirty,       \* dirty[c]: the payload c's view points into was written since
    strong,      \* strong[c]: Arc strong count
    deallocs,    \* deallocs[c]: how many times c's storage was deallocated
    payload,     \* payload[c]: the two words guarded by c's Mutex
    locked,      \* locked[c]: Mutex held
    poisoned,    \* poisoned[c]: Mutex poison flag
    hnd,         \* hnd[c]: handles to c that the host holds (PyClass objects)
    guards,      \* guards[t]: cells whose MutexGuard thread t holds
    th,          \* th[t]: [pc, c, v]: idle, blocked in lock(c), or mid-write of v to c
    last,        \* the last operation: [op, c, n, m, val] (see each action)
    decls,       \* the macro invocations of the source module, in source order
    built        \* "no" before compilation, then "ok" or "error"

vars == <<kind, owner, ref_static, snap, dirty, strong, deallocs, payload, locked,
          poisoned, hnd, guards, th, last, decls, built>>

runVars == <<kind, owner, ref_static, snap, dirty, strong, deallocs, payload, locked,
             poisoned, hnd, guards, th, last>>
declVars == <<decls, built>>

heapVars == <<kind, owner, ref_static, snap, dirty, strong, deallocs, payload>>
lockVars == <<locked, poisoned, guards>>

Idle == [pc |-> "idle", c |-> NoCell, v |-> 0]
NoView == [target |-> NoCell, life |-> "none"]
Op(op, c, n, val) == [op |-> op, c |-> c, n |-> n, m |-> -1, val |-> val]

Allocated(c) == kind[c] # "none"
Alive(c)     == kind[c] # "none" /\ deallocs[c] = 0

\* Live ref cells whose RustInstance.owner is c.
Dependents(c) == {r \in Cells : kind[r] = "ref" /\ deallocs[r] = 0 /\ owner[r] = c}

\* Faulty variant: a guard that keeps no hold on its handle.
PinnedNever(c) == 0

\* A MutexGuard borrows the handle it was locked through: while some thread holds
\* (or waits for) c's lock, one host handle to c can be neither moved nor dropped.
Pinned(c) == IF \E t \in Threads : c \in guards[t] \/ (th[t].pc # "idle" /\ th[t].c = c)
             THEN 1 ELSE 0

\* The next cell id: Arc::new allocates storage no existing cell has.
FreeCells == {c \in Cells : kind[c] = "none"}
NextCell  == IF FreeCells = {} THEN NoCell
             ELSE CHOOSE c \in FreeCells : \A d \in FreeCells : c <= d

Init ==
    /\ kind = [c \in Cells |-> "none"]
    /\ owner = [c \in Cells |-> NoCell]
    /\ ref_static = [c \in Cells |-> NoView]
    /\ snap = [c \in Cells |-> NoVal]
    /\ dirty = [c \in Cells |-> FALSE]
    /\ strong = [c \in Cells |-> 0]
    /\ deallocs = [c \in Cells |-> 0]
    /\ payload = [c \in Cells |-> NoVal]
    /\ locked = [c \in Cells |-> FALSE]
    /\ poisoned = [c \in Cells |-> FALSE]
    /\ hnd = [c \in Cells |-> 0]
    /\ guards = [t \in Threads |-> {}]
    /\ th = [t \in Threads |-> Idle]
    /\ last = Op("init", NoCell, 0, NoVal)
    /\ decls = <<>>
    /\ built = "no"

----
\* pyoil3_class!: PyClass::bind_instance

\* Arc::new: the strong count of a fresh cell.
ArcNew == 1

\* Faulty variant: the cell is built around a default value, not the one given.
NewInstanceDefault(v) == Whole(0)

\* RustInstance { instance }: the payload stored is the value given.
NewInstance(v) == Whole(v)

BindInstance(t, v) ==
    /\ th[t] = Idle
    /\ NextCell # NoCell
    /\ LET c == NextCell IN
        /\ kind' = [kind EXCEPT ![c] = "owned"]
        /\ strong' = [strong EXCEPT ![c] = ArcNew]
        /\ payload' = [payload EXCEPT ![c] = NewInstance(v)]
        /\ hnd' = [hnd EXCEPT ![c] = 1]
        /\ last' = Op("bind", c, 0, Whole(v))
    /\ UNCHANGED <<owner, ref_static, snap, dirty, deallocs, lockVars, th>>

----
\* Arc<Mutex<RustInstance>>: clone, drop, send

\* Faulty variant: cloning a handle to a ref cell clones the RustInstance behind
\* it, and with it the owner handle.
ClonedDeep(c) ==
    [d \in Cells |-> IF d = c \/ (kind[c] = "ref" /\ d = owner[c])
                     THEN strong[d] + 1 ELSE strong[d]]

\* Arc::clone of the cell's handle counts one more handle to that cell; the
\* RustInstance behind the Mutex is shared, not copied.
Cloned(c) == [strong EXCEPT ![c] = @ + 1]

ArcClone(t, c) ==
    /\ th[t] = Idle
    /\ hnd[c] >= 1
    /\ hnd[c] < MaxHandles
    /\ strong' = Cloned(c)
    /\ hnd' = [hnd EXCEPT ![c] = @ + 1]
    /\ last' = Op("clone", c, strong[c], NoVal)
    /\ UNCHANGED <<kind, owner, ref_static, snap, dirty, deallocs, payload, lockVars, th>>

\* The part of the state a release changes.
Heap == [strong |-> strong, deallocs |-> deallocs, payload |-> payload]

SetHeap(H) ==
    /\ strong' = H.strong
    /\ deallocs' = H.deallocs
    /\ payload' = H.payload

\* Faulty variant: destroying a ref cell leaves the owner handle it holds unreleased.
ReleaseNoCascade(H, c) ==
    LET H1 == [H EXCEPT !.strong[c] = @ - 1] IN
    IF H.strong[c] # 1 THEN H1
    ELSE [H1 EXCEPT !.deallocs[c] = @ + 1, !.payload[c] = Garbage]

\* Faulty variant: destroying a ref cell deallocates its owner whatever the owner's count.
ReleaseOwnerAlways(H, c) ==
    LET H1 == [H EXCEPT !.strong[c] = @ - 1] IN
    IF H.strong[c] # 1 THEN H1
    ELSE LET H2 == [H1 EXCEPT !.deallocs[c] = @ + 1, !.payload[c] = Garbage] IN
         IF kind[c] = "ref"
         THEN [H2 EXCEPT !.strong[owner[c]] = @ - 1,
                         !.deallocs[owner[c]] = @ + 1,
                         !.payload[owner[c]] = Garbage]
         ELSE H2

\* Faulty variant: the count is compared after the decrement is taken for the old value:
\* the last handle finds 1, not 0, and destroys nothing.
RECURSIVE ReleaseOffByOne(_, _)
ReleaseOffByOne(H, c) ==
    LET H1 == [H EXCEPT !.strong[c] = @ - 1] IN
    IF H.strong[c] # 0 THEN H1
    ELSE LET H2 == [H1 EXCEPT !.deallocs[c] = @ + 1, !.payload[c] = Garbage] IN
         IF kind[c] = "ref" THEN ReleaseOffByOne(H2, owner[c]) ELSE H2

\* Releasing one handle to c on the heap H.  The handle that finds the count at 1
\* destroys the cell: the RustInstance is dropped, which for a ref cell drops
\* ref_static and then releases the owner handle the cell holds; the storage is
\* deallocated and its contents become garbage.
RECURSIVE Release(_, _)
Release(H, c) ==
    LET H1 == [H EXCEPT !.strong[c] = @ - 1] IN
    IF H.strong[c] # 1 THEN H1
    ELSE LET H2 == [H1 EXCEPT !.deallocs[c] = @ + 1, !.payload[c] = Garbage] IN
         IF kind[c] = "ref" THEN Release(H2, owner[c]) ELSE H2

\* Faulty variant: the owner field is declared, and so dropped, before the view.
FieldOrderSwapped == <<"owner", "ref_static">>

\* The fields of a ref cell's RustInstance in declaration order, which is the
\* order in which they are dropped.
FieldOrder == <<"ref_static", "owner">>

Event(ev, c, by) == [ev |-> ev, c |-> c, by |-> by]

\* What happens, in order, when one handle to c is released on the heap H.
\* Nothing but the decrement unless the handle finds the count at 1; then the
\* RustInstance is dropped field by field (an owned cell: its instance; a ref
\* cell: the view is destroyed, the owner handle is released, which can destroy
\* the owner in turn), and at the end the storage of c is deallocated.
RECURSIVE DropEvents(_, _)
DropEvents(H, c) ==
    IF H.strong[c] # 1 THEN <<>>
    ELSE LET H1 == [H EXCEPT !.strong[c] = @ - 1]
             DropField(f) ==
                 IF f = "ref_static" THEN <<Event("view", c, c)>>
                 ELSE <<Event("release", owner[c], c)>> \o DropEvents(H1, owner[c])
         IN (IF kind[c] = "ref"
             THEN DropField(FieldOrder[1]) \o DropField(FieldOrder[2])
             ELSE <<Event("instance", c, c)>>)
            \o <<Event("dealloc", c, c)>>

ArcDrop(t, c) ==
    /\ th[t] = Idle
    /\ hnd[c] > Pinned(c)
    /\ SetHeap(Release(Heap, c))
    /\ hnd' = [hnd EXCEPT ![c] = @ - 1]
    /\ last' = Op("drop", c, strong[c], NoVal)
    /\ UNCHANGED <<kind, owner, ref_static, snap, dirty, lockVars, th>>

----
\* pyoil3_ref_class!: PyClass::bind_owned_instance

\* A view: a reference into the payload of cell `target`, valid for `life`.
View(o) == [target |-> o, life |-> "scoped"]

\* std::mem::transmute to $RustType<'static>: the same reference, its scope erased.
Transmute(view) == [view EXCEPT !.life = "static"]

\* Faulty variant: the handle given is dropped at the end of the call, not stored.
StoreOwnerDropped(H, o) == Release(H, o)

\* Faulty variant: the handle given is stored and cloned once more.
StoreOwnerCloned(H, o) == [H EXCEPT !.strong[o] = @ + 1]

\* RustInstance { ref_static, owner }: the handle given is moved into the new
\* cell, so the owner's count is the one the caller's handle already accounts for.
StoreOwner(H, o) == H

\* Faulty variant: the owner handle is kept in one place for the whole class, so
\* binding a new dependent re-parents the earlier ones.
OwnerFieldsShared(r, o) ==
    [c \in Cells |-> IF c = r \/ kind[c] = "ref" THEN o ELSE owner[c]]

\* RustInstance { ref_static, owner }: the owner handle is a field of the new
\* cell's own RustInstance; no other cell's field is written.
OwnerFields(r, o) == [owner EXCEPT ![r] = o]

\* Faulty variant: bind_owned_instance locks the owner to read the view.
CanBindOwnedLocking(t, o) ==
    /\ th[t] = Idle
    /\ hnd[o] > Pinned(o)
    /\ NextCell # NoCell
    /\ ~locked[o]
    /\ ~poisoned[o]

\* bind_owned_instance takes the owner handle by value (one the host can give
\* away) and touches neither the owner's lock nor its payload.
CanBindOwned(t, o) ==
    /\ th[t] = Idle
    /\ hnd[o] > Pinned(o)
    /\ NextCell # NoCell

\* last: c the new cell, n the owner's count when bind_owned_instance was called,
\* val what the view produced then, and m the owner's count before the clone that
\* made the handle given, when that clone was the operation just before (else -1).
BindOwned(t, o, v) ==
    /\ CanBindOwned(t, o)
    /\ LET r == NextCell
           H == StoreOwner(Heap, o)
       IN
        /\ kind' = [kind EXCEPT ![r] = "ref"]
        /\ owner' = OwnerFields(r, o)
        /\ ref_static' = [ref_static EXCEPT ![r] = Transmute(View(o))]
        /\ snap' = [snap EXCEPT ![r] = payload[o]]
        /\ strong' = [H.strong EXCEPT ![r] = ArcNew]
        /\ deallocs' = H.deallocs
        /\ payload' = [H.payload EXCEPT ![r] = Whole(v)]
        /\ hnd' = [hnd EXCEPT ![o] = @ - 1, ![r] = 1]
        /\ last' = [Op("bind_owned", r, strong[o], payload[o]) EXCEPT
                        !.m = IF last.op = "clone" /\ last.c = o THEN last.n ELSE -1]
    /\ UNCHANGED <<dirty, lockVars, th>>

----
\* Mutex<RustInstance>: lock, the guard, poisoning

\* Faulty variant: the lock is granted whether or not a guard exists.
LockFreeAlways(c) == TRUE

\* The lock is granted only when no guard exists.
LockFree(c) == ~locked[c]

\* Mutex::lock through a host handle, the lock being free and healthy: Ok(guard).
Lock(t, c) ==
    /\ th[t] = Idle
    /\ hnd[c] >= 1
    /\ LockFree(c)
    /\ ~poisoned[c]
    /\ locked' = [locked EXCEPT ![c] = TRUE]
    /\ guards' = [guards EXCEPT ![t] = @ \cup {c}]
    /\ last' = Op("lock_ok", c, 0, NoVal)
    /\ UNCHANGED <<heapVars, poisoned, hnd, th>>

\* Mutex::lock, the lock being free and poisoned: Err(PoisonError).  The caller
\* propagates the failure and the guard inside the error is dropped with it.
LockPoisoned(t, c) ==
    /\ th[t] = Idle
    /\ hnd[c] >= 1
    /\ LockFree(c)
    /\ poisoned[c]
    /\ last' = Op("lock_err", c, 0, NoVal)
    /\ UNCHANGED <<heapVars, lockVars, hnd, th>>

\* Faulty variant: a lock call that finds the lock held gives up and returns.
BlockedGivesUp(t, c) == th

\* The caller of lock parks until the lock is free; lock has no timeout and does
\* not look at who holds the lock.
Blocked(t, c) == [th EXCEPT ![t] = [pc |-> "wait", c |-> c, v |-> 0]]

\* Mutex::lock, the lock being held (by any thread, the caller included): the
\* caller blocks.
LockBlock(t, c) ==
    /\ th[t] = Idle
    /\ hnd[c] >= 1
    /\ ~LockFree(c)
    /\ th' = Blocked(t, c)
    /\ last' = Op("lock_block", c, 0, NoVal)
    /\ UNCHANGED <<heapVars, lockVars, hnd>>

\* A blocked caller returns from lock once the lock is free.
LockWake(t) ==
    /\ th[t].pc = "wait"
    /\ LET c == th[t].c IN
        /\ LockFree(c)
        /\ IF poisoned[c]
           THEN /\ last' = Op("lock_err", c, 0, NoVal)
                /\ UNCHANGED <<locked, guards>>
           ELSE /\ locked' = [locked EXCEPT ![c] = TRUE]
                /\ guards' = [guards EXCEPT ![t] = @ \cup {c}]
                /\ last' = Op("lock_ok", c, 0, NoVal)
    /\ th' = [th EXCEPT ![t] = Idle]
    /\ UNCHANGED <<heapVars, poisoned, hnd>>

\* Dropping the MutexGuard.
Unlock(t, c) ==
    /\ th[t] = Idle
    /\ c \in guards[t]
    /\ locked' = [locked EXCEPT ![c] = FALSE]
    /\ guards' = [guards EXCEPT ![t] = @ \ {c}]
    /\ last' = Op("unlock", c, 0, NoVal)
    /\ UNCHANGED <<heapVars, poisoned, hnd, th>>

\* Faulty variant: the guards of a panicking thread are leaked, not dropped.
UnwoundLocksLeaked(t) == locked

\* Unwinding drops every MutexGuard of the thread, which releases its lock.
UnwoundLocks(t) == [c \in Cells |-> locked[c] /\ c \notin guards[t]]

\* A panic of a thread that holds guards: unwinding drops them, and a guard
\* dropped while panicking poisons its Mutex.  The host resumes the thread.
Panic(t) ==
    /\ th[t].pc \in {"idle", "mid"}
    /\ guards[t] # {}
    /\ locked' = UnwoundLocks(t)
    /\ poisoned' = [c \in Cells |-> poisoned[c] \/ c \in guards[t]]
    /\ guards' = [guards EXCEPT ![t] = {}]
    /\ th' = [th EXCEPT ![t] = Idle]
    /\ last' = Op("panic", th[t].c, 0, NoVal)
    /\ UNCHANGED <<heapVars, hnd>>

----
\* Payload access under a guard

\* guard.instance read under the cell's own lock.
ReadOwn(t, c) ==
    /\ th[t] = Idle
    /\ c \in guards[t]
    /\ last' = Op("read", c, 0, payload[c])
    /\ UNCHANGED <<heapVars, lockVars, hnd, th>>

\* What a read through a view can produce: the words now stored at its target;
\* once the target's storage is deallocated the read is a use after free and can
\* produce anything.
Deref(view) ==
    IF deallocs[view.target] = 0 THEN {payload[view.target]}
    ELSE {Garbage} \cup {<<a, b>> : a \in Values, b \in Values}

\* guard.ref_static read under the ref cell's lock: it dereferences the view.
ReadView(t, r) ==
    /\ th[t] = Idle
    /\ r \in guards[t]
    /\ kind[r] = "ref"
    /\ \E val \in Deref(ref_static[r]) : last' = Op("read_view", r, 0, val)
    /\ UNCHANGED <<heapVars, lockVars, hnd, th>>

\* Faulty variant: a write replaces the whole RustInstance of the cell, the owner
\* handle included.
OwnerAfterWriteLost(c) == [owner EXCEPT ![c] = NoCell]

\* A write under the guard goes to the data of `instance` or behind `ref_static`;
\* the `owner` field is not assigned.
OwnerAfterWrite(c) == owner

\* A mutation of the payload under the cell's lock: first word, then second.
WriteBegin(t, c, w) ==
    /\ th[t] = Idle
    /\ c \in guards[t]
    /\ payload' = [payload EXCEPT ![c][1] = w]
    /\ dirty' = [r \in Cells |-> dirty[r] \/ ref_static[r].target = c]
    /\ th' = [th EXCEPT ![t] = [pc |-> "mid", c |-> c, v |-> w]]
    /\ owner' = OwnerAfterWrite(c)
    /\ last' = Op("write_begin", c, 0, NoVal)
    /\ UNCHANGED <<kind, ref_static, snap, strong, deallocs, lockVars, hnd>>

WriteEnd(t) ==
    /\ th[t].pc = "mid"
    /\ payload' = [payload EXCEPT ![th[t].c][2] = th[t].v]
    /\ dirty' = [r \in Cells |-> dirty[r] \/ ref_static[r].target = th[t].c]
    /\ th' = [th EXCEPT ![t] = Idle]
    /\ owner' = OwnerAfterWrite(th[t].c)
    /\ last' = Op("write_end", th[t].c, 0, NoVal)
    /\ UNCHANGED <<kind, ref_static, snap, strong, deallocs, lockVars, hnd>>

----
\* Room for a new cell among the first n.
Room(n) == NextCell # NoCell /\ NextCell <= n

BusyBindInstance(t, v) == Room(MaxBusyCells) /\ BindInstance(t, v)
BusyBindOwned(t, o, v) == Room(MaxBusyCells) /\ BindOwned(t, o, v)

\* Every operation, on up to MaxBusyCells cells.
Next ==
    /\ UNCHANGED declVars
    /\ \E t \in Threads :
        \/ \E v \in Values : BusyBindInstance(t, v)
        \/ \E o \in Cells, v \in Values : BusyBindOwned(t, o, v)
        \/ \E c \in Cells : ArcClone(t, c)
        \/ \E c \in Cells : ArcDrop(t, c)
        \/ \E c \in Cells : Lock(t, c)
        \/ \E c \in Cells : LockPoisoned(t, c)
        \/ \E c \in Cells : LockBlock(t, c)
        \/ LockWake(t)
        \/ \E c \in Cells : Unlock(t, c)
        \/ Panic(t)
        \/ \E c \in Cells : ReadOwn(t, c)
        \/ \E r \in Cells : ReadView(t, r)
        \/ \E c \in Cells, w \in Values : WriteBegin(t, c, w)
        \/ WriteEnd(t)

Spec == Init /\ [][Next]_vars

\* The handle operations and uncontended locking, on up to MaxCells cells.
NextLifetime ==
    /\ UNCHANGED declVars
    /\ \E t \in Threads :
        \/ \E v \in Values : BindInstance(t, v)
        \/ \E o \in Cells, v \in Values : BindOwned(t, o, v)
        \/ \E c \in Cells : ArcClone(t, c)
        \/ \E c \in Cells : ArcDrop(t, c)
        \/ \E c \in Cells : Lock(t, c)
        \/ \E c \in Cells : Unlock(t, c)

SpecLifetime == Init /\ [][NextLifetime]_vars

----
\* The declarations: what rustc makes of a module of macro invocations

Modules == 1..MaxModules
NoOwner == 0

\* pyoil3_class!(name, type, handle) emits `pub mod handle`.
DeclareClass(h) ==
    /\ built = "no"
    /\ Len(decls) < MaxDecls
    /\ decls' = Append(decls, [handle |-> h, owner |-> NoOwner])
    /\ UNCHANGED <<built, runVars>>

\* pyoil3_ref_class!(name, type, handle, owner) emits `pub mod handle` whose
\* RustInstance names the type super::owner::RustInstance.
DeclareRefClass(h, o) ==
    /\ built = "no"
    /\ Len(decls) < MaxDecls
    /\ decls' = Append(decls, [handle |-> h, owner |-> o])
    /\ UNCHANGED <<built, runVars>>

\* Two items of one module cannot have the same name.
UniqueModules(ds) ==
    \A i \in DOMAIN ds : \A j \in DOMAIN ds : ds[i].handle = ds[j].handle => i = j

\* The path super::owner::RustInstance resolves when the enclosing module has
\* an item `mod owner` generated by either macro.  Items of a module are in
\* scope throughout the module whatever their order, and the path is used
\* behind an Arc, so it can name the module it is written in.
OwnerResolves(ds, i) == \E j \in DOMAIN ds : ds[j].handle = ds[i].owner

Compiles(ds) ==
    /\ UniqueModules(ds)
    /\ \A i \in DOMAIN ds : ds[i].owner # NoOwner => OwnerResolves(ds, i)

\* Compilation of the source module.
Build ==
    /\ built = "no"
    /\ built' = IF Compiles(decls) THEN "ok" ELSE "error"
    /\ UNCHANGED <<decls, runVars>>

NextRegistration ==
    \/ \E h \in Modules : DeclareClass(h)
    \/ \E h \in Modules, o \in Modules : DeclareRefClass(h, o)
    \/ Build

SpecRegistration == Init /\ [][NextRegistration]_vars

----
\* Properties

LiveRefs == {r \in Cells : kind[r] = "ref" /\ deallocs[r] = 0}

\* The cells reached from c by following owner edges.
RECURSIVE Ancestors(_)
Ancestors(c) == IF kind[c] = "ref" /\ owner[c] \in Cells
                THEN {owner[c]} \cup Ancestors(owner[c]) ELSE {}

\* C1: in every reachable state, every ref cell that is still alive has an owner
\* that is not deallocated and whose handle count is at least 1, and so has every
\* cell further up its dependency chain, whatever handles the host still holds.
C1_OwnerOutlivesDependents ==
    \A r \in LiveRefs :
        /\ owner[r] \in Cells
        /\ \A a \in Ancestors(r) : Alive(a) /\ strong[a] >= 1

\* A live R2 whose owner is a ref cell R1 whose owner is an owned cell O, the host
\* holding no handle to R1 or to O any more.
C1_Witness ==
    \E r2 \in LiveRefs :
        /\ hnd[r2] >= 1
        /\ kind[owner[r2]] = "ref"
        /\ kind[owner[owner[r2]]] = "owned"
        /\ hnd[owner[r2]] = 0
        /\ hnd[owner[owner[r2]]] = 0

\* C2: clone(O) followed at once by bind_owned(view, that clone) leaves O's count
\* exactly one above what it was before the clone; and the count of an allocated
\* cell changes only by a clone of its handle (up by one) or by a drop (down by one).
C2_CloneThenBindOwned ==
    /\ [](last.op = "bind_owned" /\ last.m # -1
            => strong[owner[last.c]] = last.m + 1)
    /\ [][\A c \in Cells : Allocated(c) =>
            \/ strong'[c] = strong[c]
            \/ last'.op = "clone" /\ last'.c = c /\ strong'[c] = strong[c] + 1
            \/ last'.op = "drop" /\ strong'[c] = strong[c] - 1]_vars

\* The state after clone(O); bind_owned(view, clone), the host still holding O.
C2_Witness ==
    /\ last.op = "bind_owned"
    /\ last.m >= 1
    /\ strong[owner[last.c]] = last.m + 1
    /\ hnd[owner[last.c]] >= 1

\* C3: while a ref cell depends on O, O is allocated with a positive count, also
\* once the host holds no handle to O; no cell is deallocated twice; a read through
\* R's view of a payload not written since R was created observes the value bound;
\* with no host handle to O left its payload no longer changes; and dropping the
\* last handle to O's only dependent R takes O's count to 0 and deallocates O.
C3_OwnerSurvivesExternalDrops ==
    /\ [](\A o \in Cells : Dependents(o) # {} => Alive(o) /\ strong[o] > 0)
    /\ [](\A c \in Cells : deallocs[c] <= 1)
    /\ [](last.op = "read_view" /\ ~dirty[last.c] =>
            /\ Alive(owner[last.c])
            /\ last.val = snap[last.c])
    /\ [][\A o \in Cells :
            /\ (hnd[o] = 0 /\ Alive(o) /\ deallocs'[o] = 0 => payload'[o] = payload[o])
            /\ \A r \in Cells :
                 (/\ Dependents(o) = {r}
                  /\ hnd[o] = 0
                  /\ strong[r] = 1
                  /\ last'.op = "drop" /\ last'.c = r)
                 => /\ strong'[o] = 0
                    /\ deallocs[o] = 0 /\ deallocs'[o] = 1
                    /\ deallocs'[r] = 1]_vars

\* The drop of R, the last holder of O, has just deallocated both.
C3_Witness ==
    /\ last.op = "drop"
    /\ kind[last.c] = "ref"
    /\ deallocs[last.c] = 1
    /\ kind[owner[last.c]] = "owned"
    /\ deallocs[owner[last.c]] = 1
    /\ strong[owner[last.c]] = 0

\* C4: two ref cells R1, R2 depending on the same O, the host holding no handle
\* to O: destroying R1 then R2, or R2 then R1, leaves O allocated after the first
\* destruction and deallocates it exactly once at the second, and both orders end
\* in the same heap; every drop that destroys one of the two behaves so.
C4_OrderIndependence ==
    /\ [](\A o \in Cells : \A r1 \in Dependents(o) : \A r2 \in Dependents(o) :
            (r1 # r2 /\ Dependents(o) = {r1, r2} /\ hnd[o] = 0
                /\ strong[r1] = 1 /\ strong[r2] = 1)
            => LET A1  == Release(Heap, r1)
                   A12 == Release(A1, r2)
                   B2  == Release(Heap, r2)
                   B21 == Release(B2, r1)
               IN /\ A1.deallocs[o] = 0 /\ A1.strong[o] = 1
                  /\ B2.deallocs[o] = 0 /\ B2.strong[o] = 1
                  /\ A12.deallocs[o] = 1 /\ A12.strong[o] = 0
                  /\ B21.deallocs[o] = 1 /\ B21.strong[o] = 0
                  /\ A12 = B21)
    /\ [][\A o \in Cells :
            (/\ hnd[o] = 0
             /\ last'.op = "drop"
             /\ last'.c \in Dependents(o)
             /\ deallocs'[last'.c] = 1)
            => IF Cardinality(Dependents(o)) >= 2
               THEN deallocs'[o] = 0 /\ strong'[o] = strong[o] - 1 /\ strong'[o] >= 1
               ELSE deallocs[o] = 0 /\ deallocs'[o] = 1]_vars

\* Both dependents of O destroyed, the second drop having deallocated O.
C4_Witness ==
    \E o \in Cells : \E r1, r2 \in Cells :
        /\ r1 # r2
        /\ kind[r1] = "ref" /\ kind[r2] = "ref"
        /\ owner[r1] = o /\ owner[r2] = o
        /\ deallocs[r1] = 1 /\ deallocs[r2] = 1
        /\ deallocs[o] = 1
        /\ last.op = "drop" /\ last.c \in {r1, r2}

\* C5: a cell is never deallocated while the host or a live dependent holds a
\* handle to it, it is deallocated (once) exactly when its count is zero, and once
\* the host holds no handle at all every cell ever allocated is deallocated.
C5_DestroyedAtLastDrop ==
    /\ \A c \in Cells : Allocated(c) =>
            /\ deallocs[c] >= 1 => hnd[c] = 0 /\ Dependents(c) = {}
            /\ strong[c] = 0 <=> deallocs[c] = 1
            /\ deallocs[c] <= 1
    /\ (\A c \in Cells : hnd[c] = 0) => \A c \in Cells : Allocated(c) => deallocs[c] = 1

\* A chain R2 -> R1 -> O wholly deallocated by the drop of the last host handle.
C5_Witness ==
    /\ last.op = "drop"
    /\ \A c \in Cells : deallocs[c] = 1
    /\ \E r \in Cells : kind[r] = "ref" /\ kind[owner[r]] = "ref" /\ last.c = r

\* The threads that hold a guard of c.
Holders(c) == {t \in Threads : c \in guards[t]}

\* The threads in the middle of a mutation of c's payload.
Writers(c) == {t \in Threads : th[t].pc = "mid" /\ th[t].c = c}

\* C6: at most one thread holds a cell's lock, the lock is held exactly while a
\* guard exists, and a read of a cell's payload under that cell's lock never
\* happens during another thread's mutation of it and never sees it half-written.
C6_MutualExclusion ==
    /\ \A c \in Cells : Cardinality(Holders(c)) <= 1
    /\ \A c \in Cells : locked[c] <=> Holders(c) # {}
    /\ \A c \in Cells : Writers(c) \subseteq Holders(c)
    /\ last.op = "read" => Writers(last.c) = {} /\ ~Torn(last.val)

\* A read under the lock of a cell another thread is blocked on.
C6_Witness ==
    /\ last.op = "read"
    /\ \E t, u \in Threads :
        /\ t # u
        /\ last.c \in guards[t]
        /\ th[u].pc = "wait" /\ th[u].c = last.c

\* C7: no payload is read while another thread is in the middle of mutating it,
\* whether the read goes through the cell's own lock or through the erased view
\* kept in a dependent cell.
C7_NoConcurrentPayloadAccess ==
    /\ last.op = "read" => Writers(last.c) = {}
    /\ last.op = "read_view" => Writers(ref_static[last.c].target) = {}

\* C8: whatever is read through R's erased view is what the original view
\* produced when R was created.
C8_RoundTripFidelity ==
    last.op = "read_view" => last.val = snap[last.c]

\* C9: bind(v) allocates a cell that did not exist, whose payload is v, whose
\* count is 1 and whose lock is free and healthy, the host holding its one
\* handle; every other cell keeps its kind, count, payload and lock state.
C9_BindCreatesFreshCell ==
    [][last'.op = "bind" =>
        LET c == last'.c IN
        /\ c \in Cells
        /\ kind[c] = "none" /\ kind'[c] = "owned"
        /\ \E v \in Values : last'.val = Whole(v)
        /\ payload'[c] = last'.val
        /\ strong'[c] = 1 /\ hnd'[c] = 1 /\ deallocs'[c] = 0
        /\ ~locked'[c] /\ ~poisoned'[c]
        /\ \A t \in Threads : c \notin guards'[t]
        /\ \A d \in Cells \ {c} :
              /\ kind'[d] = kind[d] /\ owner'[d] = owner[d]
              /\ strong'[d] = strong[d] /\ deallocs'[d] = deallocs[d]
              /\ hnd'[d] = hnd[d]
              /\ payload'[d] = payload[d]
              /\ locked'[d] = locked[d] /\ poisoned'[d] = poisoned[d]
        /\ guards' = guards]_vars

\* bind(1) beside an existing cell that is locked.
C9_Witness ==
    /\ last.op = "bind"
    /\ last.val = Whole(1)
    /\ payload[last.c] = Whole(1)
    /\ \E d \in Cells \ {last.c} : locked[d] /\ payload[d] = Whole(0)

\* C10: an idle thread can always bind a value, and can always bind_owned with a
\* handle the host can give away, whatever the state of the owner's lock (held by
\* another thread, poisoned); the call returns a new live cell in one step, with
\* no thread blocked by it and no lock state changed.
C10_ConstructionInfallible ==
    /\ [](\A t \in Threads : \A v \in Values :
            (th[t] = Idle /\ NextCell # NoCell) => ENABLED BindInstance(t, v))
    /\ [](\A t \in Threads : \A o \in Cells : \A v \in Values :
            (th[t] = Idle /\ hnd[o] > Pinned(o) /\ NextCell # NoCell)
            => ENABLED BindOwned(t, o, v))
    /\ [][last'.op \in {"bind", "bind_owned"} =>
            /\ th' = th
            /\ locked' = locked /\ poisoned' = poisoned /\ guards' = guards
            /\ kind'[last'.c] \in {"owned", "ref"}
            /\ deallocs'[last'.c] = 0 /\ strong'[last'.c] = 1]_vars

\* bind_owned has just returned while another thread holds the owner's lock.
C10_Witness ==
    /\ last.op = "bind_owned"
    /\ locked[owner[last.c]]
    /\ \E u \in Threads : owner[last.c] \in guards[u] /\ th[u].pc = "mid"

\* The lock operations on cell c that return to the caller.
LockReturns == {"lock_ok", "lock_err"}

\* The cells whose payload the last step read or wrote: the cell the guard
\* belongs to, and for a read through a view the target of the view as well.
Touched ==
    IF last.op \in {"read", "write_begin", "write_end"} THEN {last.c}
    ELSE IF last.op = "read_view" THEN {last.c, ref_static[last.c].target}
    ELSE {}

\* C11: a panic of a thread that holds a cell's lock poisons the cell; a
\* poisoned cell stays poisoned and unlocked with no guard on it; every lock
\* call on it that returns, returns the failure; and no step reads or writes the
\* payload of a poisoned cell.
C11_PoisonedNeverAccessed ==
    /\ [][\A t \in Threads : \A c \in Cells :
            (last'.op = "panic" /\ c \in guards[t] /\ c \notin guards'[t])
            => poisoned'[c]]_vars
    /\ [][\A c \in Cells : poisoned[c] => poisoned'[c]]_vars
    /\ [](\A c \in Cells : poisoned[c] => ~locked[c] /\ Holders(c) = {})
    /\ [][\A c \in Cells :
            (poisoned[c] /\ last'.c = c /\ last'.op \in LockReturns)
            => last'.op = "lock_err"]_vars
    /\ [](\A c \in Touched : ~poisoned[c])

\* C12: a source module compiles only if every ref class declaration in it
\* names as owner a module declared by an earlier declaration: not an
\* undeclared name, not a name declared later, not its own name.
C12_OwnerDeclaredEarlier ==
    built = "ok" =>
        \A i \in DOMAIN decls :
            decls[i].owner # NoOwner =>
                \E j \in 1..(i - 1) : decls[j].handle = decls[i].owner

\* C13: a lock is held exactly while some thread holds its guard; a guard
\* leaves a thread only by unlock or by the thread's panic, and the lock is
\* free right after; a panic takes every guard of the thread with it; a failed
\* lock call leaves no guard behind; and a thread that holds a guard and is not
\* blocked can always release it.
C13_ReleaseOnEveryExit ==
    /\ [](\A c \in Cells : locked[c] <=> Holders(c) # {})
    /\ [][\A t \in Threads : \A c \in Cells :
            (c \in guards[t] /\ c \notin guards'[t])
            => ~locked'[c] /\ last'.op \in {"unlock", "panic"}]_vars
    /\ [][last'.op = "panic" =>
            \A t \in Threads : guards'[t] # guards[t]
                => guards'[t] = {} /\ th'[t] = Idle]_vars
    /\ [][last'.op = "lock_err" => guards' = guards /\ locked' = locked]_vars
    /\ [](\A t \in Threads : \A c \in Cells :
            (c \in guards[t] /\ th[t] = Idle) => ENABLED Unlock(t, c))

\* A thread has just panicked in the middle of a write: the payload is left
\* half written, the cell poisoned, and its lock is free.
C13_Witness ==
    /\ last.op = "panic"
    /\ last.c \in Cells
    /\ Torn(payload[last.c])
    /\ poisoned[last.c]
    /\ ~locked[last.c]
    /\ \A t \in Threads : last.c \notin guards[t]

\* C14: no step changes the owner or the view of a ref cell, or turns a ref
\* cell into anything else; a cell becomes a ref cell only as the fresh cell of
\* a bind_owned, with the owner given to it; and a ref cell stops being alive
\* only in the drop of its last handle.
C14_OwnerFixed ==
    /\ [][\A r \in Cells : kind[r] = "ref" =>
            /\ kind'[r] = "ref"
            /\ owner'[r] = owner[r]
            /\ ref_static'[r] = ref_static[r]
            /\ (Alive(r) /\ deallocs'[r] # 0) =>
                    /\ last'.op = "drop"
                    /\ strong[r] = 1 /\ strong'[r] = 0 /\ hnd'[r] = 0]_vars
    /\ [][\A r \in Cells : (kind[r] # "ref" /\ kind'[r] = "ref") =>
            /\ kind[r] = "none"
            /\ last'.op = "bind_owned" /\ last'.c = r
            /\ owner'[r] \in Cells \ {r} /\ Alive(owner'[r])
            /\ ref_static'[r].target = owner'[r]]_vars
    /\ [](\A c \in Cells : kind[c] # "ref" => owner[c] = NoCell)

\* The payload of a ref cell has just been written under its lock, the host
\* holding no handle to its owner any more: the owner is still there.
C14_Witness ==
    /\ last.op = "write_end"
    /\ kind[last.c] = "ref"
    /\ Alive(last.c)
    /\ owner[last.c] \in Cells
    /\ hnd[owner[last.c]] = 0
    /\ Alive(owner[last.c])

\* The cells met from c by following owner edges, c first, at most n of them;
\* the walk stops at a cell that is not a ref cell.
RECURSIVE Walk(_, _)
Walk(c, n) ==
    IF n = 0 \/ c \notin Cells THEN <<>>
    ELSE IF kind[c] = "ref" THEN <<c>> \o Walk(owner[c], n - 1)
    ELSE <<c>>

\* C15: every ref cell has one owner, which is a cell; the walk along owner
\* edges from any ref cell ends at an owned cell within the number of cells
\* and meets no cell twice; cells that are not ref cells have no owner.
C15_Forest ==
    /\ \A r \in Cells : kind[r] = "ref" =>
        /\ owner[r] \in Cells
        /\ LET w == Walk(r, MaxCells) IN
            /\ Len(w) >= 2
            /\ kind[w[Len(w)]] = "owned"
            /\ \A i \in DOMAIN w : \A j \in DOMAIN w : w[i] = w[j] => i = j
    /\ \A c \in Cells : kind[c] # "ref" => owner[c] = NoCell

\* A chain of two dependents over one owned cell, and the host holds a handle
\* to the last dependent only.
C15_Witness ==
    \E r \in Cells :
        /\ Alive(r) /\ kind[r] = "ref" /\ hnd[r] >= 1
        /\ kind[owner[r]] = "ref" /\ hnd[owner[r]] = 0
        /\ kind[owner[owner[r]]] = "owned" /\ hnd[owner[owner[r]]] = 0
        /\ Walk(r, MaxCells) = <<r, owner[r], owner[owner[r]]>>

\* Thread t is blocked in lock(c) while holding the guard of c.
SelfDeadlocked(t, c) == th[t].pc = "wait" /\ th[t].c = c /\ c \in guards[t]

LockOps == {"lock_ok", "lock_err", "lock_block"}

\* C16: a thread that holds the guard of c can call lock(c) again; the call is
\* neither granted nor failed, the thread blocks; from then on it stays blocked
\* with c locked, it can neither wake, unlock nor panic; every lock call on c
\* blocks its caller as well, and every thread blocked on c stays blocked.
C16_SelfDeadlock ==
    /\ [](\A t \in Threads : \A c \in Cells :
            (c \in guards[t] /\ th[t] = Idle) =>
                /\ ENABLED LockBlock(t, c)
                /\ ~ENABLED Lock(t, c)
                /\ ~ENABLED LockPoisoned(t, c))
    /\ [][last'.op = "lock_block" =>
            \E t \in Threads :
                /\ th[t] = Idle /\ th'[t].pc = "wait" /\ th'[t].c = last'.c
                /\ locked[last'.c] /\ locked'[last'.c]]_vars
    /\ [](\A t \in Threads : \A c \in Cells :
            SelfDeadlocked(t, c) =>
                /\ locked[c]
                /\ ~ENABLED LockWake(t)
                /\ ~ENABLED Unlock(t, c)
                /\ ~ENABLED Panic(t))
    /\ [][\A t \in Threads : \A c \in Cells :
            SelfDeadlocked(t, c) =>
                /\ th'[t] = th[t] /\ guards'[t] = guards[t] /\ locked'[c]
                /\ \A u \in Threads :
                        (th[u].pc = "wait" /\ th[u].c = c) => th'[u] = th[u]
                /\ (last'.c = c /\ last'.op \in LockOps)
                        => last'.op = "lock_block"]_vars

\* A thread is blocked on the cell it holds, and the other thread, which tried
\* to lock the cell after that, is blocked on it too.
C16_Witness ==
    \E t \in Threads : \E u \in Threads \ {t} : \E c \in Cells :
        /\ SelfDeadlocked(t, c)
        /\ th[u].pc = "wait" /\ th[u].c = c /\ c \notin guards[u]
        /\ last.op = "lock_block" /\ last.c = c

C18_CountInvariant ==
    /\ [](\A c \in Cells : strong[c] = hnd[c] + Cardinality(Dependents(c)))
    /\ [][\A r \in Cells : (kind[r] = "ref" /\ Alive(r) /\ last'.c = r) =>
            /\ (last'.op \in {"clone", "drop"} /\ strong'[r] >= 1)
                    => strong'[owner[r]] = strong[owner[r]]
            /\ (last'.op = "drop" /\ strong[r] = 1)
                    => strong'[owner[r]] = strong[owner[r]] - 1]_vars
    /\ [][\A o \in Cells : strong'[o] < strong[o] =>
            /\ strong'[o] = strong[o] - 1
            /\ last'.op = "drop"
            /\ \/ last'.c = o /\ hnd'[o] = hnd[o] - 1
               \/ \E r \in Dependents(o) : deallocs'[r] = 1 /\ hnd'[o] = hnd[o]]_vars

\* The host holds two handles to a dependent and none to its owner: the owner's
\* count is 1, after a clone of the dependent's handle.
C18_Witness ==
    /\ last.op = "clone"
    /\ kind[last.c] = "ref"
    /\ strong[last.c] = 2 /\ hnd[last.c] = 2
    /\ hnd[owner[last.c]] = 0
    /\ strong[owner[last.c]] = 1

\* The cells whose payload is destroyed or whose storage is deallocated by the
\* first i events of log.
Gone(log, i) ==
    {log[j].c : j \in {k \in 1..i : log[k].ev \in {"instance", "dealloc"}}}

\* The ref cells, alive before the drop, whose view still exists after the first
\* i events of log.
ViewsLeft(log, i) ==
    {r \in LiveRefs : \A j \in 1..i : log[j] # Event("view", r, r)}

\* C19: no live ref cell has a view into deallocated storage; and in the drop
\* of a handle, after each single event of the destruction, no view that still
\* exists points to a cell whose payload is already destroyed: a ref cell's
\* view is destroyed before the ref cell releases its owner handle.  The events
\* deallocate exactly the cells the drop deallocates.
C19_ViewDestroyedFirst ==
    /\ [](\A r \in LiveRefs : deallocs[ref_static[r].target] = 0)
    /\ [][last'.op = "drop" =>
            LET log == DropEvents(Heap, last'.c) IN
                /\ \A i \in DOMAIN log :
                       \A r \in ViewsLeft(log, i) :
                           ref_static[r].target \notin Gone(log, i)
                /\ \A i \in DOMAIN log : log[i].ev = "release" =>
                       \E j \in 1..(i - 1) : log[j] = Event("view", log[i].by, log[i].by)
                /\ Gone(log, Len(log)) = {c \in Cells : deallocs'[c] # deallocs[c]}]_vars

\* The last handle to the last dependent of a chain has been dropped, and the
\* whole chain went with it: three cells destroyed in one drop.
C19_Witness ==
    /\ last.op = "drop"
    /\ kind[last.c] = "ref"
    /\ deallocs[last.c] = 1
    /\ kind[owner[last.c]] = "ref"
    /\ deallocs[owner[last.c]] = 1
    /\ deallocs[owner[owner[last.c]]] = 1
    /\ last.n = 1

\* C20: a cell whose lock is held, or on whose lock a thread is blocked, or
\* whose payload a thread is writing, is allocated and not deallocated, has a
\* count of at least 1 and a handle in the hands of the host; and the last such
\* handle cannot be dropped.
C20_NoDeallocUnderLock ==
    \A c \in Cells :
        (\/ locked[c]
         \/ \E t \in Threads : c \in guards[t]
         \/ \E t \in Threads : th[t].pc # "idle" /\ th[t].c = c)
        => /\ Alive(c)
           /\ strong[c] >= 1
           /\ hnd[c] >= 1
           /\ payload[c] # Garbage
           /\ hnd[c] = 1 => \A t \in Threads : ~ENABLED ArcDrop(t, c)

\* The host has dropped every handle to a locked cell but the one the guard
\* borrows, while another thread is blocked on the lock.
C20_Witness ==
    /\ last.op = "drop"
    /\ last.c \in Cells
    /\ locked[last.c]
    /\ hnd[last.c] = 1 /\ strong[last.c] = 1
    /\ \E t \in Threads : th[t].pc = "wait" /\ th[t].c = last.c

====
